---- MODULE Spec2Model ----
(***************************************************************************)
(* Model of xeda's cocotb support (src/src/xeda/cocotb.py):                *)
(*   - CocotbSettings.str_to_list, the validator of testcase / gpi_extra;  *)
(*   - Cocotb.env, the derivation of the cocotb environment table;         *)
(*   - Cocotb._results / results / result_testcases / add_results, the     *)
(*     memoized xUnit report and its summary.                              *)
(*                                                                         *)
(* Text that the code takes apart or puts together (split, strip, join,    *)
(* path operations) is a sequence of one-character strings; text the code  *)
(* only passes through is a TLA+ string.  An optional value is a sequence  *)
(* of length at most one: None is <<>>, a present value v is <<v>>.        *)
(***************************************************************************)
EXTENDS Integers, Sequences, FiniteSets, TLC

VARIABLES
    raw,           \* the value handed to the validator str_to_list
    validated,     \* what the validator returned (optional)
    settings,      \* the CocotbSettings fields of self
    design,        \* the Design object handed to env (env may write tb.top)
    environ,       \* os.environ.get("PYTHONPATH") (optional text)
    envResult,     \* outcome of the last env call
    file,          \* the results file on disk
    cached,        \* the cached_property cell of _results (optional report)
    flow_results,  \* the parent flow's result dictionary
    lastCall       \* outcome of the last access to the report

vars == <<raw, validated, settings, design, environ, envResult,
          file, cached, flow_results, lastCall>>

normVars == <<raw, validated>>
envVars == <<settings, design, environ, envResult>>
resVars == <<file, cached, flow_results, lastCall>>

None == <<>>
Some(v) == <<v>>
IsSet(o) == o # <<>>
Get(o) == o[1]

(***************************************************************************)
(* Bounds of the model.                                                    *)
(***************************************************************************)
MaxLen == 4          \* longest text handed to str_to_list
MaxItems == 2        \* longest list handed to str_to_list
MaxModuleLen == 3    \* longest tb.cocotb.module text
MaxSources == 2      \* most testbench sources
MaxList == 1         \* longest settings.testcase / settings.gpi_extra
MaxSeed == 1         \* largest random_seed
MaxCount == 1        \* largest tests / errors / failures / skipped counter

(***************************************************************************)
(* Text helpers.                                                           *)
(***************************************************************************)
RECURSIVE SeqsUpTo(_, _)
SeqsUpTo(S, n) ==
    IF n = 0 THEN {<<>>}
    ELSE LET shorter == SeqsUpTo(S, n - 1)
         IN  shorter \cup {Append(s, x) : s \in shorter, x \in S}

Last(s) == s[Len(s)]
Front(s) == SubSeq(s, 1, Len(s) - 1)
Positions(s, c) == {i \in 1..Len(s) : s[i] = c}
Min(S) == CHOOSE i \in S : \A j \in S : i <= j
Max(S) == CHOOSE i \in S : \A j \in S : i >= j

\* Python's str.split(sep) for a one-character separator.
RECURSIVE split(_, _)
split(s, sep) ==
    IF Positions(s, sep) = {} THEN <<s>>
    ELSE LET i == Min(Positions(s, sep))
         IN  <<SubSeq(s, 1, i - 1)>> \o split(SubSeq(s, i + 1, Len(s)), sep)

\* Python's sep.join(items).
RECURSIVE join(_, _)
join(items, sep) ==
    IF items = <<>> THEN <<>>
    ELSE IF Len(items) = 1 THEN items[1]
    ELSE items[1] \o sep \o join(Tail(items), sep)

Whitespace == {" ", "\t", "\n"}

\* Python's str.strip(): leading and trailing whitespace removed.
strip(s) ==
    LET solid == {i \in 1..Len(s) : s[i] \notin Whitespace}
    IN  IF solid = {} THEN <<>> ELSE SubSeq(s, Min(solid), Max(solid))

(***************************************************************************)
(* CocotbSettings.str_to_list.  A value is tagged with its Python type:    *)
(* kind "str" carries the text in s, kind "list" carries the items in l.   *)
(***************************************************************************)
StrValue(s) == [kind |-> "str", s |-> s, l |-> <<>>]
ListValue(l) == [kind |-> "list", s |-> <<>>, l |-> l]

str_to_list_nostrip(value) ==
    IF value.kind = "str" THEN ListValue(split(value.s, ",")) ELSE value

str_to_list(value) ==
    IF value.kind = "str"
    THEN ListValue([i \in 1..Len(split(value.s, ",")) |-> strip(split(value.s, ",")[i])])
    ELSE value

NormAlphabet == {"a", "b", ",", " "}
Example == <<"a", ",", " ", "b", ",", "c">>          \* "a, b,c"
ExampleItems == << <<"a">>, <<"b">>, <<"c">> >>      \* ["a", "b", "c"]
RawTexts == SeqsUpTo(NormAlphabet, MaxLen) \cup {Example}
RawItems == {<<>>, <<"a">>, <<" ", "a">>, <<"a", ",", "b">>}
RawValues == {StrValue(s) : s \in RawTexts}
             \cup {ListValue(l) : l \in SeqsUpTo(RawItems, MaxItems)}

(***************************************************************************)
(* Construction of the settings: the validator runs on the value given for *)
(* testcase / gpi_extra (pre=True, always=True), and runs again whenever   *)
(* settings are built from already validated ones.                         *)
(***************************************************************************)
InitNorm ==
    /\ raw \in RawValues
    /\ validated = None

Validate ==
    /\ validated = None
    /\ validated' = Some(str_to_list(raw))
    /\ UNCHANGED raw

Revalidate ==
    /\ IsSet(validated)
    /\ raw' = Get(validated)
    /\ validated' = Some(str_to_list(Get(validated)))

(***************************************************************************)
(* The xUnit report.  A report carries the aggregate counters that         *)
(* junitparser's JUnitXml exposes (tests, errors, failures, skipped,       *)
(* time); JUnitXml() with no suites has every counter 0.                   *)
(***************************************************************************)
Counters == 0..MaxCount
Times == {0, 5}
Reports == [tests : Counters, errors : Counters, failures : Counters,
            skipped : Counters, time : Times]
EmptyReport == [tests |-> 0, errors |-> 0, failures |-> 0, skipped |-> 0, time |-> 0]

\* The results file: missing, present but not parseable, or holding a report.
MissingFile == [exists |-> FALSE, wellformed |-> FALSE, report |-> EmptyReport]
MalformedFile == [exists |-> TRUE, wellformed |-> FALSE, report |-> EmptyReport]
ReportFile(r) == [exists |-> TRUE, wellformed |-> TRUE, report |-> r]
FileStates == {MissingFile, MalformedFile} \cup {ReportFile(r) : r \in Reports}

\* What a later run of the harness may leave in the file.
RerunReports ==
    {[tests |-> 1, errors |-> 0, failures |-> 0, skipped |-> 0, time |-> 5],
     [tests |-> 1, errors |-> 0, failures |-> 1, skipped |-> 0, time |-> 5]}

LoadReport_missing_raises(f) ==
    IF ~f.exists \/ ~f.wellformed THEN [raised |-> TRUE, report |-> EmptyReport]
    ELSE [raised |-> FALSE, report |-> f.report]

\* The body of _results: JUnitXml() when the file is missing, else
\* JUnitXml.fromfile, which raises on a file it cannot parse.
LoadReport(f) ==
    IF ~f.exists THEN [raised |-> FALSE, report |-> EmptyReport]
    ELSE IF ~f.wellformed THEN [raised |-> TRUE, report |-> EmptyReport]
    ELSE [raised |-> FALSE, report |-> f.report]

results_uncached(cell, f) ==
    LoadReport(f) @@ [loaded |-> TRUE]

\* self.results: the cached_property runs the body only while the cell is
\* empty, and fills the cell only when the body returns.
results(cell, f) ==
    IF IsSet(cell)
    THEN [raised |-> FALSE, report |-> Get(cell), loaded |-> FALSE]
    ELSE LoadReport(f) @@ [loaded |-> TRUE]

CellAfter(cell, got) == IF got.raised THEN cell ELSE Some(got.report)

failed_unless_tests(xml) == xml.errors # 0 \/ xml.failures # 0

\* add_results, lines 194-203: the verdict.
failed(xml) == xml.tests = 0 \/ xml.errors # 0 \/ xml.failures # 0

Prefixes == {"cocotb.", ""}
CounterNames == {"tests", "errors", "failures", "skipped", "time"}
Keys == {p \o n : p \in Prefixes, n \in CounterNames} \cup {"success", "runtime"}

Written(prefix) == {prefix \o n : n \in CounterNames}

add_results_always_success(fr, prefix, xml) ==
    [k \in DOMAIN fr |->
        IF k = prefix \o "tests" THEN Some(xml.tests)
        ELSE IF k = prefix \o "errors" THEN Some(xml.errors)
        ELSE IF k = prefix \o "failures" THEN Some(xml.failures)
        ELSE IF k = prefix \o "skipped" THEN Some(xml.skipped)
        ELSE IF k = prefix \o "time" THEN Some(xml.time)
        ELSE IF k = "success" THEN Some(~failed(xml))
        ELSE fr[k]]

\* add_results, lines 189-205: the dictionary after the call.
add_results(fr, prefix, xml) ==
    [k \in DOMAIN fr |->
        IF k = prefix \o "tests" THEN Some(xml.tests)
        ELSE IF k = prefix \o "errors" THEN Some(xml.errors)
        ELSE IF k = prefix \o "failures" THEN Some(xml.failures)
        ELSE IF k = prefix \o "skipped" THEN Some(xml.skipped)
        ELSE IF k = prefix \o "time" THEN Some(xml.time)
        ELSE IF k = "success" /\ failed(xml) THEN Some(FALSE)
        ELSE fr[k]]

NoCall == [op |-> "none", prefix |-> "", raised |-> FALSE, loaded |-> FALSE,
           report |-> EmptyReport, ret |-> None]

Access(op, prefix, got, ret) ==
    [op |-> op, prefix |-> prefix, raised |-> got.raised, loaded |-> got.loaded,
     report |-> got.report, ret |-> IF got.raised THEN None ELSE ret]

InitialFlowResults ==
    {[k \in Keys |-> IF k = "success" THEN s
                     ELSE IF k = "runtime" THEN Some(1) ELSE None] :
        s \in {None, Some(TRUE), Some(FALSE)}}

InitResults ==
    /\ file \in FileStates
    /\ cached = None
    /\ flow_results \in InitialFlowResults
    /\ lastCall = NoCall

\* The property results.
Results ==
    LET got == results(cached, file)
    IN  /\ cached' = CellAfter(cached, got)
        /\ lastCall' = Access("results", "", got, None)
        /\ UNCHANGED <<file, flow_results>>

\* Iterating the generator result_testcases, which reads self.results.
ResultTestcases ==
    LET got == results(cached, file)
    IN  /\ cached' = CellAfter(cached, got)
        /\ lastCall' = Access("result_testcases", "", got, None)
        /\ UNCHANGED <<file, flow_results>>

AddResults(prefix) ==
    LET got == results(cached, file)
    IN  /\ cached' = CellAfter(cached, got)
        /\ flow_results' = IF got.raised THEN flow_results
                           ELSE add_results(flow_results, prefix, got.report)
        /\ lastCall' = Access("add_results", prefix, got, Some(~failed(got.report)))
        /\ UNCHANGED file

\* The harness, or anything else, creates, rewrites, corrupts or deletes the file.
FileChange ==
    /\ file' \in ({MissingFile, MalformedFile} \cup {ReportFile(r) : r \in RerunReports})
                 \ {file}
    /\ UNCHANGED <<cached, flow_results, lastCall>>

(***************************************************************************)
(* Cocotb.env.  Paths are POSIX: os.sep is "/", os.pathsep is ":".         *)
(***************************************************************************)
sep == <<"/">>
pathsep == <<":">>

\* Python truthiness of an optional text / optional string.
TruthyText(o) == IsSet(o) /\ Get(o) # <<>>
TruthyStr(o) == IsSet(o) /\ Get(o) # ""

\* tb.top: None, a single string, or a sequence of strings.
NoTop == [kind |-> "none", s |-> "", q |-> <<>>]
StrTop(s) == [kind |-> "str", s |-> s, q |-> <<>>]
SeqTop(q) == [kind |-> "seq", s |-> "", q |-> q]
TruthyTop(t) ==
    \/ t.kind = "str" /\ t.s # ""
    \/ t.kind = "seq" /\ t.q # <<>>

\* os.path.isabs and os.path.join(a, b).
isabs(p) == p # <<>> /\ p[1] = "/"
path_join(a, b) ==
    IF isabs(b) THEN b
    ELSE IF a = <<>> \/ Last(a) = "/" THEN a \o b
    ELSE a \o sep \o b

\* pathlib: Path.name, Path.parent and Path.stem of a normalized path.
name(p) ==
    IF Positions(p, "/") = {} THEN p
    ELSE SubSeq(p, Max(Positions(p, "/")) + 1, Len(p))
parent(p) ==
    IF Positions(p, "/") = {} THEN <<".">>
    ELSE IF Max(Positions(p, "/")) = 1 THEN sep
    ELSE SubSeq(p, 1, Max(Positions(p, "/")) - 1)
stem(p) ==
    LET n == name(p)
        dots == Positions(n, ".")
    IN  IF dots = {} \/ Max(dots) = 1 \/ Max(dots) = Len(n) THEN n
        ELSE SubSeq(n, 1, Max(dots) - 1)

RECURSIVE SelectType(_, _)
SelectType(sources, type) ==
    IF sources = <<>> THEN <<>>
    ELSE IF sources[1].type = type
         THEN <<sources[1]>> \o SelectType(Tail(sources), type)
         ELSE SelectType(Tail(sources), type)

\* design.sources_of_type(SourceType.Cocotb, rtl=False, tb=True)
cocotb_sources(d) == SelectType(d.tb.sources, "Cocotb")

top_cocotb_source_first(d) ==
    IF cocotb_sources(d) # <<>> THEN Some(cocotb_sources(d)[1].file) ELSE None

\* lines 114-118
top_cocotb_source(d) ==
    IF cocotb_sources(d) # <<>> THEN Some(Last(cocotb_sources(d)).file) ELSE None

\* lines 105-112: the message of the ValueError raised, or "" when none is.
env_error_unless_toplevel(d) ==
    IF ~IsSet(d.tb.cocotb) THEN ""
    ELSE IF d.tb.sources = <<>> THEN "sources"
    ELSE IF ~TruthyStr(Get(d.tb.cocotb).toplevel) /\ ~TruthyTop(d.tb.top)
            /\ ~TruthyStr(d.rtl_top) THEN "top"
    ELSE ""

env_error(d) ==
    IF ~IsSet(d.tb.cocotb) THEN ""
    ELSE IF d.tb.sources = <<>> THEN "sources"
    ELSE IF ~TruthyTop(d.tb.top) /\ ~TruthyStr(d.rtl_top) THEN "top"
    ELSE ""

tb_top_after_only_without_toplevel(d) ==
    IF IsSet(d.tb.cocotb) /\ d.tb.sources # <<>> /\ ~TruthyTop(d.tb.top)
       /\ TruthyStr(d.rtl_top) /\ ~TruthyStr(Get(d.tb.cocotb).toplevel)
    THEN SeqTop(<<Get(d.rtl_top)>>)
    ELSE d.tb.top

\* lines 105-113: tb.top when env returns or raises.
tb_top_after(d) ==
    IF IsSet(d.tb.cocotb) /\ d.tb.sources # <<>> /\ ~TruthyTop(d.tb.top)
       /\ TruthyStr(d.rtl_top)
    THEN SeqTop(<<Get(d.rtl_top)>>)
    ELSE d.tb.top

\* lines 120-123
current_py_path(env) == IF TruthyText(env) THEN split(Get(env), ":") ELSE <<>>

\* lines 125-134: the entry the module adds to py_path.
module_path(d) ==
    LET design_module_split == split(Get(Get(d.tb.cocotb).module), "/")
    IN  IF Len(design_module_split) > 1
        THEN LET dir == join(Front(design_module_split), sep)
             IN  IF ~isabs(dir) THEN path_join(d.root_path, dir) ELSE dir
        ELSE d.root_path

\* lines 120-138
py_path(d, env) ==
    current_py_path(env)
    \o (IF TruthyText(Get(d.tb.cocotb).module) THEN <<module_path(d)>> ELSE <<>>)
    \o (IF TruthyText(top_cocotb_source(d))
        THEN <<parent(Get(top_cocotb_source(d)))>> ELSE <<>>)

\* lines 124-136
coco_module(d) ==
    IF TruthyText(Get(d.tb.cocotb).module)
    THEN Some(Last(split(Get(Get(d.tb.cocotb).module), "/")))
    ELSE IF TruthyText(top_cocotb_source(d))
    THEN Some(stem(Get(top_cocotb_source(d))))
    ELSE None

toplevel_from_top(d) ==
    IF TruthyTop(d.tb.top)
    THEN Some(IF d.tb.top.kind = "str" THEN d.tb.top.s ELSE d.tb.top.q[1])
    ELSE Get(d.tb.cocotb).toplevel

\* lines 139-141, on the design as line 113 left it.
toplevel(d) ==
    IF ~TruthyStr(Get(d.tb.cocotb).toplevel) /\ TruthyTop(d.tb.top)
    THEN Some(IF d.tb.top.kind = "str" THEN d.tb.top.s ELSE d.tb.top.q[1])
    ELSE Get(d.tb.cocotb).toplevel

optional_entries_truthy_seed(self, d) ==
    LET testcases == IF self.testcase # <<>> THEN self.testcase
                     ELSE Get(d.tb.cocotb).testcase
    IN  (IF self.coverage THEN [COVERAGE |-> 1] ELSE <<>>)
        @@ (IF testcases # <<>> THEN [TESTCASE |-> join(testcases, <<",">>)] ELSE <<>>)
        @@ (IF IsSet(self.random_seed) /\ Get(self.random_seed) # 0
            THEN [RANDOM_SEED |-> Get(self.random_seed)] ELSE <<>>)
        @@ (IF self.gpi_extra # <<>>
            THEN [GPI_EXTRA |-> join(self.gpi_extra, <<",">>)] ELSE <<>>)

\* lines 150-158: the entries added to ret after the first six.
optional_entries(self, d) ==
    LET testcases == IF self.testcase # <<>> THEN self.testcase
                     ELSE Get(d.tb.cocotb).testcase
    IN  (IF self.coverage THEN [COVERAGE |-> 1] ELSE <<>>)
        @@ (IF testcases # <<>> THEN [TESTCASE |-> join(testcases, <<",">>)] ELSE <<>>)
        @@ (IF IsSet(self.random_seed)
            THEN [RANDOM_SEED |-> Get(self.random_seed)] ELSE <<>>)
        @@ (IF self.gpi_extra # <<>>
            THEN [GPI_EXTRA |-> join(self.gpi_extra, <<",">>)] ELSE <<>>)

\* lines 104, 142-160: the table env returns for design d (tb.top as line 113
\* left it) when no error is raised.
env(self, d, environment) ==
    IF ~IsSet(d.tb.cocotb) THEN <<>>
    ELSE [MODULE |-> coco_module(d),
          TOPLEVEL |-> toplevel(d),
          COCOTB_REDUCED_LOG_FMT |-> IF self.reduced_log_fmt THEN 1 ELSE 0,
          PYTHONPATH |-> join(py_path(d, environment), pathsep),
          COCOTB_RESULTS_FILE |-> self.results_xml,
          COCOTB_RESOLVE_X |-> self.resolve_x]
         @@ optional_entries(self, d)

(***************************************************************************)
(* The designs, settings and environments env is run on.                   *)
(***************************************************************************)
CocotbSource1 == [file |-> <<"t", "/", "x", ".", "p", "y">>, type |-> "Cocotb"]
CocotbSource2 == [file |-> <<"y", ".", "p", "y">>, type |-> "Cocotb"]
CocotbSource3 == [file |-> <<"/", "z", ".", "p", "y">>, type |-> "Cocotb"]
VerilogSource == [file |-> <<"t", "b", ".", "v">>, type |-> "Verilog"]
SourceValues == {CocotbSource1, CocotbSource2, CocotbSource3, VerilogSource}
SourceLists == SeqsUpTo(SourceValues, MaxSources)

ModuleTexts == SeqsUpTo({"/", "p", "m"}, MaxModuleLen)
TopValues == {NoTop, StrTop(""), StrTop("tbs"), SeqTop(<<>>), SeqTop(<<"tb1">>),
              SeqTop(<<"tb1", "tb2">>)}
ItemLists == SeqsUpTo({<<"a">>, <<"b", "c">>}, MaxList)
Seeds == {None} \cup {Some(n) : n \in 0..MaxSeed}
ResolveX == {"VALUE_ERROR", "ZEROS", "ONES", "RANDOM"}

\* CocotbSettings with every field at its default (lines 17-41).
DefaultSettings ==
    [coverage |-> FALSE, reduced_log_fmt |-> TRUE, results_xml |-> "results.xml",
     resolve_x |-> "VALUE_ERROR", testcase |-> <<>>, random_seed |-> None,
     gpi_extra |-> <<>>]

AllSettings ==
    [coverage : BOOLEAN, reduced_log_fmt : BOOLEAN, results_xml : {"results.xml"},
     resolve_x : ResolveX, testcase : ItemLists, random_seed : Seeds,
     gpi_extra : ItemLists]

Designs(roots, rtlTops, tops, sourceLists, modules, toplevels, testcases) ==
    [root_path : roots, rtl_top : rtlTops,
     tb : [top : tops, sources : sourceLists,
           cocotb : {None} \cup {Some(c) : c \in [module : modules,
                                                   toplevel : toplevels,
                                                   testcase : testcases]}]]

NotCalled == [status |-> "none", error |-> "", ret |-> <<>>]

\* Designs that differ in what decides the toplevel.
InitTop ==
    /\ settings = DefaultSettings
    /\ environ = None
    /\ design \in Designs({<<"/", "r">>}, {None, Some(""), Some("rtl")}, TopValues,
                          SourceLists, {None, Some(<<"m">>)},
                          {None, Some(""), Some("dut")}, {<<>>})

\* Designs and environments that differ in what decides MODULE and PYTHONPATH.
InitPath ==
    /\ settings = DefaultSettings
    /\ environ \in {None, Some(<<>>), Some(<<"x">>), Some(<<"x", ":", "y">>),
                    Some(<<":", "x">>)}
    /\ design \in Designs({<<"/", "r">>, <<"r">>}, {Some("rtl")}, {NoTop},
                          SourceLists, {None} \cup {Some(m) : m \in ModuleTexts},
                          {None}, {<<>>})

\* Settings that differ in what decides the keys of the table.
InitKeys ==
    /\ settings \in AllSettings
    /\ environ = None
    /\ design \in Designs({<<"/", "r">>}, {None}, {SeqTop(<<"tb1">>)},
                          {<<>>, <<CocotbSource1>>}, {Some(<<"m">>)}, {None},
                          {<<>>, << <<"t">> >>})

InitEnv ==
    /\ InitTop \/ InitPath \/ InitKeys
    /\ envResult = NotCalled

\* One call of env(design): raises, or returns the table; line 113 may have
\* written tb.top before.
Env ==
    /\ design' = [design EXCEPT !.tb.top = tb_top_after(design)]
    /\ envResult' =
          IF env_error(design) # ""
          THEN [status |-> "error", error |-> env_error(design), ret |-> <<>>]
          ELSE [status |-> "ok", error |-> "", ret |-> env(settings, design', environ)]
    /\ UNCHANGED <<settings, environ>>

(***************************************************************************)
(* Specifications: the validator, env, and the report, each on its own.    *)
(***************************************************************************)
IdleNorm == raw = ListValue(<<>>) /\ validated = None
IdleEnv == /\ settings = DefaultSettings
           /\ environ = None
           /\ envResult = NotCalled
           /\ design = [root_path |-> <<"/", "r">>, rtl_top |-> None,
                        tb |-> [top |-> NoTop, sources |-> <<>>, cocotb |-> None]]
IdleResults == /\ file = MissingFile
               /\ cached = None
               /\ lastCall = NoCall
               /\ flow_results = [k \in Keys |-> None]

InitNormSpec == InitNorm /\ IdleEnv /\ IdleResults
NextNorm ==
    \/ Validate /\ UNCHANGED <<envVars, resVars>>
    \/ Revalidate /\ UNCHANGED <<envVars, resVars>>
SpecNorm == InitNormSpec /\ [][NextNorm]_vars

InitEnvSpec == InitEnv /\ IdleNorm /\ IdleResults
NextEnv == Env /\ UNCHANGED <<normVars, resVars>>
SpecEnv == InitEnvSpec /\ [][NextEnv]_vars

InitResultsSpec == InitResults /\ IdleNorm /\ IdleEnv
NextResults ==
    \/ Results /\ UNCHANGED <<normVars, envVars>>
    \/ ResultTestcases /\ UNCHANGED <<normVars, envVars>>
    \/ \E prefix \in Prefixes : AddResults(prefix) /\ UNCHANGED <<normVars, envVars>>
    \/ FileChange /\ UNCHANGED <<normVars, envVars>>
SpecResults == InitResultsSpec /\ [][NextResults]_vars

(***************************************************************************)
(* Claims about str_to_list (under SpecNorm).                              *)
(***************************************************************************)
\* The k-th comma of s, with position 0 before the text and Len(s) + 1 after it.
Comma(s, k) ==
    IF k = 0 THEN 0
    ELSE IF k > Cardinality(Positions(s, ",")) THEN Len(s) + 1
    ELSE CHOOSE p \in Positions(s, ",") :
            Cardinality({q \in Positions(s, ",") : q < p}) = k - 1

\* The text between the (k-1)-th and the k-th comma of s.
Field(s, k) == SubSeq(s, Comma(s, k - 1) + 1, Comma(s, k) - 1)

\* item is field without the whitespace around it.
IsStripped(item, field) ==
    /\ item = <<>> \/ (item[1] \notin Whitespace /\ Last(item) \notin Whitespace)
    /\ \E i \in 0..Len(field) :
          /\ i + Len(item) <= Len(field)
          /\ SubSeq(field, i + 1, i + Len(item)) = item
          /\ \A j \in 1..Len(field) :
                (j <= i \/ j > i + Len(item)) => field[j] \in Whitespace

\* C8: once validated, a text has become the list of its comma-separated
\* fields, in order, each without the whitespace around it ("a, b,c" gives
\* ["a", "b", "c"]); a list has been returned as it was; and the validator
\* returns a validated value unchanged.
C8_Normalization ==
    IsSet(validated) =>
        LET out == Get(validated)
        IN  /\ out.kind = "list"
            /\ raw.kind = "list" => out = raw
            /\ raw.kind = "str" =>
                  /\ Len(out.l) = Cardinality(Positions(raw.s, ",")) + 1
                  /\ \A k \in 1..Len(out.l) : IsStripped(out.l[k], Field(raw.s, k))
            /\ raw = StrValue(Example) => out = ListValue(ExampleItems)
            /\ str_to_list(out) = out

C8_Witness ==
    /\ raw = StrValue(Example)
    /\ validated = Some(ListValue(ExampleItems))

(***************************************************************************)
(* Claims about the report (under SpecResults).  A step that leaves the    *)
(* file alone is an access to the report; lastCall' describes it.          *)
(***************************************************************************)
\* C1: add_results returns true exactly when tests > 0, errors = 0 and
\* failures = 0, whatever skipped and time are.
C1_Verdict ==
    (lastCall.op = "add_results" /\ ~lastCall.raised) =>
        (lastCall.ret = Some(TRUE)
            <=> (lastCall.report.tests > 0 /\ lastCall.report.errors = 0
                 /\ lastCall.report.failures = 0))

C1_Witness ==
    /\ lastCall.op = "add_results"
    /\ lastCall.ret = Some(TRUE)
    /\ lastCall.report.skipped > 0

\* C6: a first access that finds no results file raises nothing and yields
\* the empty report; add_results on it writes prefix+"tests" = 0, records
\* success = false and returns false.
C6_MissingFile ==
    [][(cached = None /\ ~file.exists /\ file' = file) =>
          /\ ~lastCall'.raised
          /\ lastCall'.report = EmptyReport
          /\ cached' = Some(EmptyReport)
          /\ lastCall'.op = "add_results" =>
                /\ flow_results'[lastCall'.prefix \o "tests"] = Some(0)
                /\ flow_results'["success"] = Some(FALSE)
                /\ lastCall'.ret = Some(FALSE)]_vars

C6_Witness ==
    /\ ~file.exists
    /\ lastCall.op = "add_results"
    /\ lastCall.loaded
    /\ lastCall.ret = Some(FALSE)
    /\ flow_results[lastCall.prefix \o "tests"] = Some(0)

\* C7: once the report is loaded, the cell never changes, and every later
\* access returns that report without loading, whatever happens to the file;
\* add_results called again with the same prefix leaves the dictionary and
\* the verdict as they were.
C7_Memoized ==
    [][IsSet(cached) =>
          /\ cached' = cached
          /\ file' = file =>
                /\ ~lastCall'.raised
                /\ ~lastCall'.loaded
                /\ lastCall'.report = Get(cached)
          /\ (/\ file' = file
              /\ lastCall.op = "add_results"
              /\ lastCall'.op = "add_results"
              /\ lastCall'.prefix = lastCall.prefix) =>
                /\ flow_results' = flow_results
                /\ lastCall'.ret = lastCall.ret]_vars

C7_Witness ==
    /\ IsSet(cached)
    /\ file.exists /\ file.wellformed
    /\ file.report # Get(cached)
    /\ lastCall.op = "add_results"
    /\ ~lastCall.loaded

\* C9: add_results writes the five keys prefix+tests .. prefix+time with the
\* report's counters, writes success only as false and only when the verdict
\* is false, and leaves every other key alone; success = false stays false.
C9_Frame ==
    [][/\ (lastCall'.op = "add_results" /\ ~lastCall'.raised /\ file' = file) =>
            LET p == lastCall'.prefix
                r == Get(cached')
            IN  /\ flow_results'[p \o "tests"] = Some(r.tests)
                /\ flow_results'[p \o "errors"] = Some(r.errors)
                /\ flow_results'[p \o "failures"] = Some(r.failures)
                /\ flow_results'[p \o "skipped"] = Some(r.skipped)
                /\ flow_results'[p \o "time"] = Some(r.time)
                /\ flow_results'["success"] =
                      IF lastCall'.ret = Some(FALSE) THEN Some(FALSE)
                      ELSE flow_results["success"]
                /\ \A k \in Keys \ (Written(p) \cup {"success"}) :
                      flow_results'[k] = flow_results[k]
       /\ flow_results["success"] = Some(FALSE) => flow_results'["success"] = Some(FALSE)
       /\ DOMAIN flow_results' = DOMAIN flow_results]_vars

C9_Witness ==
    /\ lastCall.op = "add_results"
    /\ lastCall.ret = Some(TRUE)
    /\ flow_results["success"] = Some(FALSE)
    /\ flow_results["cocotb.tests"] = Some(1)
    /\ flow_results["runtime"] = Some(1)

(***************************************************************************)
(* Claims about env (under SpecEnv).  Every step is one call of env:       *)
(* design is the design handed in, design' the design afterwards and       *)
(* envResult' the outcome.                                                 *)
(***************************************************************************)
Requested(d) == IsSet(d.tb.cocotb)
ExplicitToplevel(d) == Requested(d) /\ TruthyStr(Get(d.tb.cocotb).toplevel)
FirstOfTop(t) == IF t.kind = "str" THEN t.s ELSE t.q[1]

\* C2 as stated: env fails exactly when cocotb is requested and tb.sources is
\* empty or none of tb.cocotb.toplevel, tb.top, rtl.top is set.
C2_AsStated ==
    [][envResult'.status = "error" <=>
          /\ Requested(design)
          /\ \/ design.tb.sources = <<>>
             \/ /\ ~ExplicitToplevel(design)
                /\ ~TruthyTop(design.tb.top)
                /\ ~TruthyStr(design.rtl_top)]_vars

\* C2, amended: env fails exactly when cocotb is requested and tb.sources is
\* empty or neither tb.top nor rtl.top is set; tb.cocotb.toplevel has no say.
C2_Fails ==
    [][envResult'.status = "error" <=>
          /\ Requested(design)
          /\ \/ design.tb.sources = <<>>
             \/ /\ ~TruthyTop(design.tb.top)
                /\ ~TruthyStr(design.rtl_top)]_vars

C2_Witness ==
    /\ envResult.status = "error"
    /\ envResult.error = "top"
    /\ ExplicitToplevel(design)
    /\ design.tb.sources # <<>>

\* C3: when env returns with cocotb requested, TOPLEVEL is tb.cocotb.toplevel
\* if set, else tb.top (its first element when a sequence) if set, else
\* rtl.top, and then tb.top has become the one-element sequence of rtl.top.
C3_Toplevel ==
    [][(envResult'.status = "ok" /\ Requested(design)) =>
          IF ExplicitToplevel(design)
          THEN envResult'.ret.TOPLEVEL = Get(design.tb.cocotb).toplevel
          ELSE IF TruthyTop(design.tb.top)
          THEN envResult'.ret.TOPLEVEL = Some(FirstOfTop(design.tb.top))
          ELSE /\ envResult'.ret.TOPLEVEL = design.rtl_top
               /\ TruthyStr(design.rtl_top)
               /\ design'.tb.top = SeqTop(<<Get(design.rtl_top)>>)]_vars

C3_Witness ==
    /\ envResult.status = "ok"
    /\ Requested(design)
    /\ ~ExplicitToplevel(design)
    /\ envResult.ret.TOPLEVEL = Some("rtl")
    /\ design.tb.top = SeqTop(<<"rtl">>)

\* The directory a module text adds to the search path: the text before its
\* last "/" (taken against root unless absolute), or root without a "/".
ModuleDir(root, m) ==
    IF Positions(m, "/") = {} THEN root
    ELSE LET dir == SubSeq(m, 1, Max(Positions(m, "/")) - 1)
         IN  IF isabs(dir) THEN dir ELSE root \o <<"/">> \o dir

LastSegment(m) ==
    IF Positions(m, "/") = {} THEN m
    ELSE SubSeq(m, Max(Positions(m, "/")) + 1, Len(m))

CocotbIndexes(d) == {i \in 1..Len(d.tb.sources) : d.tb.sources[i].type = "Cocotb"}
LastCocotbFile(d) == d.tb.sources[Max(CocotbIndexes(d))].file

\* C4: when env returns with cocotb requested, PYTHONPATH is the process's
\* PYTHONPATH as it was, then the module's directory if tb.cocotb.module is
\* set, then the directory of the last cocotb source if there is one; MODULE is
\* the last segment of the module if set, else the stem of that source.
C4_SearchPath ==
    (envResult.status = "ok" /\ Requested(design)) =>
        LET m == Get(design.tb.cocotb).module
            existing == IF TruthyText(environ) THEN <<Get(environ)>> ELSE <<>>
            moddir == IF TruthyText(m) THEN <<ModuleDir(design.root_path, Get(m))>>
                      ELSE <<>>
            srcdir == IF CocotbIndexes(design) # {}
                      THEN <<parent(LastCocotbFile(design))>> ELSE <<>>
        IN  /\ envResult.ret.PYTHONPATH = join(existing \o moddir \o srcdir, <<":">>)
            /\ TruthyText(m) => envResult.ret.MODULE = Some(LastSegment(Get(m)))
            /\ (~TruthyText(m) /\ CocotbIndexes(design) # {}) =>
                  envResult.ret.MODULE = Some(stem(LastCocotbFile(design)))

C4_Witness ==
    /\ envResult.status = "ok"
    /\ Requested(design)
    /\ Get(design.tb.cocotb).module = Some(<<"p", "/", "m">>)
    /\ design.tb.sources = <<CocotbSource2, CocotbSource1>>
    /\ envResult.ret.MODULE = Some(<<"m">>)
    /\ envResult.ret.PYTHONPATH =
          <<"x", ":", "y", ":", "/", "r", "/", "p", ":", "t">>

BaseKeys == {"MODULE", "TOPLEVEL", "COCOTB_REDUCED_LOG_FMT", "PYTHONPATH",
             "COCOTB_RESULTS_FILE", "COCOTB_RESOLVE_X"}

\* C5: env returns the empty table when cocotb is not requested; otherwise
\* the six base keys, plus COVERAGE iff coverage, TESTCASE iff the effective
\* test-case list is non-empty, RANDOM_SEED iff random_seed is set (0
\* included) and GPI_EXTRA iff gpi_extra is non-empty, and nothing else.
C5_Keys ==
    envResult.status = "ok" =>
        IF ~Requested(design) THEN DOMAIN envResult.ret = {}
        ELSE LET effective == IF settings.testcase # <<>> THEN settings.testcase
                              ELSE Get(design.tb.cocotb).testcase
             IN  DOMAIN envResult.ret =
                    BaseKeys
                    \cup (IF settings.coverage THEN {"COVERAGE"} ELSE {})
                    \cup (IF effective # <<>> THEN {"TESTCASE"} ELSE {})
                    \cup (IF IsSet(settings.random_seed) THEN {"RANDOM_SEED"} ELSE {})
                    \cup (IF settings.gpi_extra # <<>> THEN {"GPI_EXTRA"} ELSE {})

C5_Witness ==
    /\ envResult.status = "ok"
    /\ Requested(design)
    /\ settings.random_seed = Some(0)
    /\ settings.testcase = <<>>
    /\ DOMAIN envResult.ret = BaseKeys \cup {"TESTCASE", "RANDOM_SEED"}
    /\ envResult.ret.RANDOM_SEED = 0

RtlFallback(d) ==
    /\ Requested(d)
    /\ d.tb.sources # <<>>
    /\ ~TruthyTop(d.tb.top)
    /\ TruthyStr(d.rtl_top)

\* C10 as stated: env changes nothing, except that it sets tb.top to the
\* one-element sequence of rtl.top exactly when the toplevel is resolved by
\* the rtl.top fallback (no explicit tb.cocotb.toplevel among the conditions).
C10_AsStated ==
    [][/\ settings' = settings
       /\ environ' = environ
       /\ design' = IF RtlFallback(design) /\ ~ExplicitToplevel(design)
                    THEN [design EXCEPT !.tb.top = SeqTop(<<Get(design.rtl_top)>>)]
                    ELSE design]_vars

\* C10, amended: env changes nothing, except that it sets tb.top to the
\* one-element sequence of rtl.top exactly when cocotb is requested,
\* tb.sources is non-empty, tb.top is unset and rtl.top is set, whether or not
\* tb.cocotb.toplevel is given.
C10_Frame ==
    [][/\ settings' = settings
       /\ environ' = environ
       /\ design' = IF RtlFallback(design)
                    THEN [design EXCEPT !.tb.top = SeqTop(<<Get(design.rtl_top)>>)]
                    ELSE design]_vars

C10_Witness ==
    /\ envResult.status = "ok"
    /\ ExplicitToplevel(design)
    /\ envResult.ret.TOPLEVEL = Some("dut")
    /\ design.tb.top = SeqTop(<<"rtl">>)

====
